---- MODULE Spec2Model ----
(***************************************************************************)
(* tap-exacttarget: sync of one dynamic data extension.                    *)
(*                                                                         *)
(* DataAccessObject.sync (dao.py) and                                      *)
(* DataExtensionDataAccessObject.sync_data / _replicate                    *)
(* (endpoints/data_extensions.py) as a state machine.  Dates are counted   *)
(* in ticks of half a day, so that a one-day window holds rows with        *)
(* different replication-key values.  A run of the process is one call of  *)
(* sync(); the process may be terminated anywhere and started again from   *)
(* the state that save_state wrote last.                                   *)
(***************************************************************************)
EXTENDS Integers, Sequences, FiniteSets, TLC

VARIABLES
    config,           \* self.config: default_start_date, replication_keys, unit
    catalog,          \* self.catalog: stream, selected, fields
    today,            \* the clock before_today reads
    rows,             \* the remote table: the replication-key value of each row
    saved,            \* the durable state, as save_state wrote it last
    state,            \* self.state, the in-memory ReplicationState
    pc,               \* position of the process in sync()
    replication_key,  \* sync_data's local
    start,            \* sync_data's local
    end,              \* sync_data's local
    pending,          \* rows the cursor of _replicate has not yielded yet
    result,           \* rows the current row-listing request returns
    log,              \* what this run did, in order
    prevLog,          \* the log of the run before this one
    emittedAll,       \* rows written downstream by any run so far
    firstStart,       \* the start the first run to reach sync_data resolved
    runStart,         \* the start this run resolved
    saved0,           \* the durable state before the first run
    run,              \* number of the current run
    queue,            \* the streams that are synced after this one
    extensions,       \* what the remote lists as data extensions
    fields,           \* what the remote lists as data extension fields
    to_return,        \* the catalog generate_catalog is building
    dpc,              \* position of generate_catalog
    fpos,             \* number of fields _get_fields has merged
    raw,              \* a row as the remote returns it: its Property list
    record            \* the record _replicate writes for raw

vars == <<config, catalog, today, rows, saved, state, pc, replication_key,
          start, end, pending, result, log, prevLog, emittedAll, firstStart,
          runStart, saved0, run, queue, extensions, fields, to_return, dpc,
          fpos, raw, record>>

\* What discovery and the projection of a row work on.
aside == <<extensions, fields, to_return, dpc, fpos, raw, record>>

\* What no step of a sync changes.
inputs == <<config, catalog, today, rows, saved0, queue, aside>>

\* ---------------------------------------------------------------- bounds
MaxTick == 4      \* rows are dated 0..MaxTick, today is at most MaxTick + 1
MaxRows == 2      \* rows of the remote table
MaxRuns == 2      \* runs of the process (MaxRuns - 1 restarts)

\* ------------------------------------------------------------- constants
\* Python's None, for a date, a unit or a filter bound.
NoValue == -1

\* Python's None, for a replication key.
NoKey == "None"

\* {'days': 1}, the default of pagination.data_extension, in ticks.
DefaultUnit == 2

\* ['ModifiedDate'], the default of data_extensions.replication_keys.
DefaultReplicationKeys == <<"ModifiedDate">>

Ticks == 0..MaxTick

DateFields == {"ModifiedDate", "CreatedDate"}

\* The properties _get_extensions gives every entry.
FixedFields == {"_CustomObjectKey", "CategoryID"}

Tables == {"data_extension.A", "data_extension.B"}

\* Values of pagination.data_extension: one day (the default), two days.
Units == {DefaultUnit, 2 * DefaultUnit}

\* Values of default_start_date, and the bookmark an earlier sync may have left.
StartDates == {0, 1}
EarlierBookmarks == {NoValue, 2}

\* Values of data_extensions.replication_keys.
CandidateLists ==
    { DefaultReplicationKeys,
      <<"ModifiedDate", "CreatedDate">>,
      <<"CreatedDate", "ModifiedDate">>,
      <<"SentDate", "CreatedDate", "ModifiedDate">> }

Event(ev, a, b) == [ev |-> ev, a |-> a, b |-> b]

\* ------------------------------------------------- tap_exacttarget.state
\* incorporate(state, table, field, value): stores value as the bookmark of
\* table; a missing value (no replication key) leaves the state alone.  It
\* does not compare with the stored value.
incorporate(s, table, field, value) ==
    IF value = NoValue \/ field = NoKey
    THEN s
    ELSE [s EXCEPT ![table] = value]

get_last_record_value_for_table(s, table) == s[table]

\* -------------------------------------------- tap_exacttarget.pagination
increment_date(date, unit) ==
    date + (IF unit = NoValue THEN DefaultUnit ELSE unit)

before_today(date) == date < today

get_date_page(field, date, unit) ==
    [property |-> field, lo |-> date, hi |-> increment_date(date, unit)]

NoFilter == [property |-> NoKey, lo |-> NoValue, hi |-> NoValue]

\* ------------------------------------------------ tap_exacttarget.client
\* request_from_cursor: the rows of the table that pass the cursor's filter.
request_from_cursor(filter) ==
    IF filter = NoFilter
    THEN rows
    ELSE {v \in rows : filter.lo <= v /\ v < filter.hi}

\* ------------------------------------------------------------------ dao
get_catalog_keys == catalog.fields

\* ------------------------------------------------------------ sync_data
RECURSIVE resolve_from(_, _, _, _)
\* The for loop of sync_data over the candidate keys, from index i on.
resolve_from(candidates, keys, i, found) ==
    IF i > Len(candidates)
    THEN found
    ELSE resolve_from(candidates, keys, i + 1,
                      IF candidates[i] \in keys THEN candidates[i] ELSE found)

resolve_replication_key(candidates, keys) ==
    resolve_from(candidates, keys, 1, NoKey)

sync_data_keys == get_catalog_keys \ {"CategoryID"}

\* sync_data_start with the bookmark ignored: every run begins at
\* default_start_date.
sync_data_start_default == config.default_start_date

sync_data_start ==
    LET last == get_last_record_value_for_table(state, catalog.stream)
    IN  IF last = NoValue THEN config.default_start_date ELSE last

\* ------------------------------------------------------------------ Init
RowSets == {s \in SUBSET Ticks : Cardinality(s) <= MaxRows}

\* Inputs that vary the dates, the window size and the table, under the
\* default candidate keys.
SyncInputs ==
    /\ config \in [default_start_date : StartDates,
                   replication_keys : {DefaultReplicationKeys},
                   unit : Units]
    /\ catalog \in [stream : {"data_extension.A"},
                    selected : BOOLEAN,
                    fields : {FixedFields, FixedFields \cup {"ModifiedDate"}}]
    /\ today \in 0..(MaxTick + 1)
    /\ rows \in RowSets

\* Inputs that vary the candidate keys and the fields of the entry.
KeyInputs ==
    /\ config \in [default_start_date : {0},
                   replication_keys : CandidateLists \ {DefaultReplicationKeys},
                   unit : {DefaultUnit}]
    /\ catalog \in [stream : {"data_extension.A"},
                    selected : {TRUE},
                    fields : {FixedFields \cup f : f \in SUBSET DateFields}]
    /\ today = DefaultUnit
    /\ rows = {0, 1}

\* No discovery and no projection is going on.
AsideIdle ==
    /\ extensions = <<>>
    /\ fields = <<>>
    /\ to_return = <<>>
    /\ dpc = "idle"
    /\ fpos = 0
    /\ raw = <<>>
    /\ record = <<>>

Init ==
    /\ SyncInputs \/ KeyInputs
    /\ queue = <<>>
    /\ AsideIdle
    /\ \E b \in EarlierBookmarks :
          saved = [t \in Tables |-> IF t = catalog.stream THEN b ELSE NoValue]
    /\ state = saved
    /\ pc = "sync"
    /\ replication_key = NoKey
    /\ start = NoValue
    /\ end = NoValue
    /\ pending = {}
    /\ result = {}
    /\ log = <<>>
    /\ prevLog = <<>>
    /\ emittedAll = {}
    /\ firstStart = NoValue
    /\ runStart = NoValue
    /\ saved0 = saved
    /\ run = 1

\* ------------------------------------------------------------------ sync
\* sync_skip without its return: sync goes on to sync_data.
sync_skip_falls_through ==
    /\ pc = "sync"
    /\ ~catalog.selected
    /\ pc' = "sync_data"
    /\ UNCHANGED <<inputs, saved, state, replication_key, start, end, pending,
                   result, log, prevLog, emittedAll, firstStart, runStart, run>>

\* dao.py 55-58: the entry is not selected.
sync_skip ==
    /\ pc = "sync"
    /\ ~catalog.selected
    /\ pc' = "done"
    /\ UNCHANGED <<inputs, saved, state, replication_key, start, end, pending,
                   result, log, prevLog, emittedAll, firstStart, runStart, run>>

\* sync_write_schema without the call of write_schema.
sync_write_schema_missing ==
    /\ pc = "sync"
    /\ catalog.selected
    /\ pc' = "sync_data"
    /\ UNCHANGED <<inputs, saved, state, replication_key, start, end, pending,
                   result, log, prevLog, emittedAll, firstStart, runStart, run>>

\* dao.py 60-64: write_schema.
sync_write_schema ==
    /\ pc = "sync"
    /\ catalog.selected
    /\ log' = Append(log, Event("schema", NoValue, NoValue))
    /\ pc' = "sync_data"
    /\ UNCHANGED <<inputs, saved, state, replication_key, start, end, pending,
                   result, prevLog, emittedAll, firstStart, runStart, run>>

\* data_extensions.py 187-225: the locals of sync_data and the lookup of the
\* parent extension.
sync_data_setup ==
    /\ pc = "sync_data"
    /\ start' = sync_data_start
    /\ replication_key' =
          resolve_replication_key(config.replication_keys, sync_data_keys)
    /\ end' = increment_date(start', config.unit)
    /\ log' = Append(log, Event("parent_request", NoValue, NoValue))
    /\ runStart' = start'
    /\ firstStart' = IF firstStart = NoValue THEN start' ELSE firstStart
    /\ pc' = "loop"
    /\ UNCHANGED <<inputs, saved, state, pending, result, prevLog, emittedAll, run>>

\* data_extensions.py 227-236 and 151-165: the loop test holds, _replicate
\* is called and sends its row-listing request.  sync_data passes no unit.
replicate_request ==
    /\ pc = "loop"
    /\ before_today(start) \/ replication_key = NoKey
    /\ LET partial == replication_key # NoKey
           filter == IF partial
                     THEN get_date_page(replication_key, start, NoValue)
                     ELSE NoFilter
       IN  /\ result' = request_from_cursor(filter)
           /\ pending' = result'
           /\ log' = log \o << Event("replicate", start, end),
                               Event("row_request", filter.lo, filter.hi) >>
    /\ pc' = "rows"
    /\ UNCHANGED <<inputs, saved, state, replication_key, start, end, prevLog,
                   emittedAll, firstStart, runStart, run>>

\* sync_data_exit that leaves the loop only when start is today.
sync_data_exit_at_today ==
    /\ pc = "loop"
    /\ start = today /\ replication_key # NoKey
    /\ pc' = "done"
    /\ UNCHANGED <<inputs, saved, state, replication_key, start, end, pending,
                   result, log, prevLog, emittedAll, firstStart, runStart, run>>

\* data_extensions.py 227: the loop test fails.
sync_data_exit ==
    /\ pc = "loop"
    /\ ~(before_today(start) \/ replication_key = NoKey)
    /\ pc' = "done"
    /\ UNCHANGED <<inputs, saved, state, replication_key, start, end, pending,
                   result, log, prevLog, emittedAll, firstStart, runStart, run>>

\* replicate_row with save_state called inside the for loop.
replicate_row_saving ==
    /\ pc = "rows"
    /\ \E v \in pending :
          /\ state' = incorporate(state, catalog.stream, replication_key,
                                  IF replication_key = NoKey THEN NoValue ELSE v)
          /\ saved' = state'
          /\ log' = Append(log, Event("record", v, NoValue))
          /\ emittedAll' = emittedAll \cup {v}
          /\ pending' = pending \ {v}
    /\ UNCHANGED <<inputs, pc, replication_key, start, end, result,
                   prevLog, firstStart, runStart, run>>

\* data_extensions.py 167-176: one row of the result, in the order the
\* remote yields them.
replicate_row ==
    /\ pc = "rows"
    /\ \E v \in pending :
          /\ state' = incorporate(state, catalog.stream, replication_key,
                                  IF replication_key = NoKey THEN NoValue ELSE v)
          /\ log' = Append(log, Event("record", v, NoValue))
          /\ emittedAll' = emittedAll \cup {v}
          /\ pending' = pending \ {v}
    /\ UNCHANGED <<inputs, saved, pc, replication_key, start, end, result,
                   prevLog, firstStart, runStart, run>>

\* replicate_finish without incorporate(..., start): the state is saved as
\* the last row left it.
replicate_finish_no_start ==
    /\ pc = "rows"
    /\ pending = {}
    /\ IF replication_key # NoKey
       THEN /\ saved' = state
            /\ log' = Append(log, Event("save", saved'[catalog.stream], start))
            /\ UNCHANGED state
       ELSE UNCHANGED <<state, saved, log>>
    /\ pc' = "replicated"
    /\ UNCHANGED <<inputs, replication_key, start, end, pending, result,
                   prevLog, emittedAll, firstStart, runStart, run>>

\* replicate_finish without the test of partial: save_state is called in a
\* full refresh too.
replicate_finish_always_saves ==
    /\ pc = "rows"
    /\ pending = {}
    /\ state' = incorporate(state, catalog.stream, replication_key, start)
    /\ saved' = state'
    /\ log' = Append(log, Event("save", saved'[catalog.stream], start))
    /\ pc' = "replicated"
    /\ UNCHANGED <<inputs, replication_key, start, end, pending, result,
                   prevLog, emittedAll, firstStart, runStart, run>>

\* data_extensions.py 178-184: the rows are exhausted.
replicate_finish ==
    /\ pc = "rows"
    /\ pending = {}
    /\ IF replication_key # NoKey
       THEN /\ state' = incorporate(state, catalog.stream, replication_key, start)
            /\ saved' = state'
            /\ log' = Append(log, Event("save", saved'[catalog.stream], start))
       ELSE UNCHANGED <<state, saved, log>>
    /\ pc' = "replicated"
    /\ UNCHANGED <<inputs, replication_key, start, end, pending, result,
                   prevLog, emittedAll, firstStart, runStart, run>>

\* data_extensions.py 238-239: no replication key, one pass.
sync_data_return ==
    /\ pc = "replicated"
    /\ replication_key = NoKey
    /\ pc' = "done"
    /\ UNCHANGED <<inputs, saved, state, replication_key, start, end, pending,
                   result, log, prevLog, emittedAll, firstStart, runStart, run>>

\* sync_data_commit with the next end computed from the old start.
sync_data_commit_stale_end ==
    /\ pc = "replicated"
    /\ replication_key # NoKey
    /\ state' = incorporate(state, catalog.stream, replication_key, start)
    /\ saved' = state'
    /\ log' = Append(log, Event("save", saved'[catalog.stream], start))
    /\ start' = end
    /\ end' = increment_date(start, config.unit)
    /\ pc' = "loop"
    /\ UNCHANGED <<inputs, replication_key, pending, result, prevLog,
                   emittedAll, firstStart, runStart, run>>

\* sync_data_commit with the window's end committed as the bookmark.
sync_data_commit_end_bookmark ==
    /\ pc = "replicated"
    /\ replication_key # NoKey
    /\ state' = incorporate(state, catalog.stream, replication_key, end)
    /\ saved' = state'
    /\ log' = Append(log, Event("save", saved'[catalog.stream], start))
    /\ start' = end
    /\ end' = increment_date(start', config.unit)
    /\ pc' = "loop"
    /\ UNCHANGED <<inputs, replication_key, pending, result, prevLog,
                   emittedAll, firstStart, runStart, run>>

\* data_extensions.py 241-249: commit the window and move to the next.
sync_data_commit ==
    /\ pc = "replicated"
    /\ replication_key # NoKey
    /\ state' = incorporate(state, catalog.stream, replication_key, start)
    /\ saved' = state'
    /\ log' = Append(log, Event("save", saved'[catalog.stream], start))
    /\ start' = end
    /\ end' = increment_date(start', config.unit)
    /\ pc' = "loop"
    /\ UNCHANGED <<inputs, replication_key, pending, result, prevLog,
                   emittedAll, firstStart, runStart, run>>

\* The process ends, wherever it is, and is started again: dao.py 16-20
\* builds the new object from the state that was saved.
restart ==
    /\ run < MaxRuns
    /\ run' = run + 1
    /\ state' = saved
    /\ pc' = "sync"
    /\ replication_key' = NoKey
    /\ start' = NoValue
    /\ end' = NoValue
    /\ pending' = {}
    /\ result' = {}
    /\ prevLog' = log
    /\ log' = <<>>
    /\ runStart' = NoValue
    /\ UNCHANGED <<inputs, saved, emittedAll, firstStart>>

Next ==
    \/ sync_skip
    \/ sync_write_schema
    \/ sync_data_setup
    \/ replicate_request
    \/ sync_data_exit
    \/ replicate_row
    \/ replicate_finish
    \/ sync_data_return
    \/ sync_data_commit
    \/ restart

Spec == Init /\ [][Next]_vars

\* One run of sync that nothing interrupts: the process takes its next
\* step as long as it has one.
NextRun ==
    \/ sync_skip
    \/ sync_write_schema
    \/ sync_data_setup
    \/ replicate_request
    \/ sync_data_exit
    \/ replicate_row
    \/ replicate_finish
    \/ sync_data_return
    \/ sync_data_commit

SpecRun == Init /\ [][NextRun]_vars /\ WF_vars(NextRun)

\* -------------------------------------------------------------- failures
\* data_extensions.py 213-225: the lookup of the parent extension raises.
\* Nothing in sync_data or sync catches it.
sync_data_parent_raises ==
    /\ pc = "sync_data"
    /\ start' = sync_data_start
    /\ replication_key' =
          resolve_replication_key(config.replication_keys, sync_data_keys)
    /\ end' = increment_date(start', config.unit)
    /\ log' = log \o << Event("parent_request", NoValue, NoValue),
                        Event("raise", NoValue, NoValue) >>
    /\ runStart' = start'
    /\ firstStart' = IF firstStart = NoValue THEN start' ELSE firstStart
    /\ pc' = "failed"
    /\ UNCHANGED <<inputs, saved, state, pending, result, prevLog, emittedAll, run>>

\* data_extensions.py 165-167: the row listing raises, at the request or
\* while the rows are read.  Nothing in _replicate, sync_data or sync
\* catches it.
replicate_raises ==
    /\ pc = "rows"
    /\ log' = Append(log, Event("raise", NoValue, NoValue))
    /\ pc' = "failed"
    /\ UNCHANGED <<inputs, saved, state, replication_key, start, end, pending,
                   result, prevLog, emittedAll, firstStart, runStart, run>>

\* The process that ended with the failure is started again.
failed_restart ==
    /\ pc = "failed"
    /\ restart

NextFail ==
    \/ NextRun
    \/ sync_data_parent_raises
    \/ replicate_raises
    \/ failed_restart

SpecFail == Init /\ [][NextFail]_vars

\* ------------------------------------------------------------------ idle
\* The sync of a stream is not going on; the entry is set by whoever uses it.
SyncIdle ==
    /\ config = [default_start_date |-> 0,
                 replication_keys |-> DefaultReplicationKeys,
                 unit |-> DefaultUnit]
    /\ today = 0
    /\ rows = {}
    /\ saved = [t \in Tables |-> NoValue]
    /\ state = saved
    /\ pc = "idle"
    /\ replication_key = NoKey
    /\ start = NoValue
    /\ end = NoValue
    /\ pending = {}
    /\ result = {}
    /\ log = <<>>
    /\ prevLog = <<>>
    /\ emittedAll = {}
    /\ firstStart = NoValue
    /\ runStart = NoValue
    /\ saved0 = saved
    /\ run = 1
    /\ queue = <<>>

\* ---------------------------------------------- the record of one row
\* Names and values of the properties of a row.
PropNames == {"A", "B", "C"}
PropValues == {1, 2, 3}

\* parent_extension.CategoryID, as the lookup of the parent returns it.
ParentCategoryID == 0

\* A row's Properties.Property: Name/Value pairs, as a mapping.
RawRows == UNION {[names -> PropValues] : names \in SUBSET PropNames}

\* dao.py 45-46, DataAccessObject.parse_object: project(obj, keys).  The
\* data extension object overrides it.
dao_parse_object(obj) ==
    [n \in DOMAIN obj \cap get_catalog_keys |-> obj[n]]

\* data_extensions.py 138-145: every property of the row, by name.
parse_object(obj) == [n \in DOMAIN obj |-> obj[n]]

\* dao.py 36-39.
filter_keys_and_parse(obj) == parse_object(obj)

\* data_extensions.py 168-176: the record that is written for a row.
replicate_row_record ==
    /\ dpc = "row"
    /\ record' = ("CategoryID" :> ParentCategoryID) @@ filter_keys_and_parse(raw)
    /\ dpc' = "written"
    /\ UNCHANGED <<config, catalog, today, rows, saved, state, pc,
                   replication_key, start, end, pending, result, log, prevLog,
                   emittedAll, firstStart, runStart, saved0, run, queue,
                   extensions, fields, to_return, fpos, raw>>

InitProject ==
    /\ SyncIdle
    /\ catalog \in [stream : {"data_extension.A"},
                    selected : {TRUE},
                    fields : {{"CategoryID"} \cup f : f \in SUBSET PropNames}]
    /\ raw \in RawRows
    /\ record = <<>>
    /\ dpc = "row"
    /\ extensions = <<>>
    /\ fields = <<>>
    /\ to_return = <<>>
    /\ fpos = 0

NextProject == replicate_row_record

SpecProject == InitProject /\ [][NextProject]_vars

\* ------------------------------------------------------------ discovery
MaxExtensions == 2    \* extensions in the listing of the remote
MaxFields == 2        \* fields in the listing of the remote

CustomerKeys == {"k1", "k2"}
ExtensionNames == {"A", "B"}
FieldNames == {"IsActive", "Price", "Count", "ModifiedDate"}

\* FieldType of a field, by its name.
FieldTypeOf ==
    [n \in FieldNames |->
        CASE n = "IsActive" -> "Boolean"
          [] n = "Price" -> "Decimal"
          [] n = "Count" -> "Number"
          [] OTHER -> "Date"]

\* 'data_extension.{}'.format(name)
data_extension(name) ==
    CASE name = "k1" -> "data_extension.k1"
      [] name = "k2" -> "data_extension.k2"
      [] name = "A" -> "data_extension.A"
      [] OTHER -> "data_extension.B"

\* What the remote lists: extensions with distinct customer keys, and
\* fields, each naming the customer key of its extension.
ExtensionListings ==
    {l \in UNION {[1..n -> [CustomerKey : CustomerKeys, Name : ExtensionNames]]
                     : n \in 0..MaxExtensions} :
        \A i, j \in DOMAIN l : l[i].CustomerKey = l[j].CustomerKey => i = j}

FieldObjects ==
    {[CustomerKey |-> k, Name |-> n, FieldType |-> FieldTypeOf[n],
      IsPrimaryKey |-> p] : k \in CustomerKeys, n \in FieldNames, p \in BOOLEAN}

FieldListings == UNION {[1..n -> FieldObjects] : n \in 0..MaxFields}

\* {} of Python.
EmptyDict == [x \in {} |-> x]

\* data_extensions.py 21-27.
convert_extension_datatype(datatype) ==
    IF datatype \in {"Boolean"} THEN "bool"
    ELSE IF datatype \in {"Decimal", "Number"} THEN "number"
    ELSE "string"

\* data_extensions.py 69-92: the entry of one extension.  Descriptions are
\* left out, and a type is always a list.
extension_entry(extension) ==
    [tap_stream_id |-> data_extension(extension.CustomerKey),
     stream |-> data_extension(extension.Name),
     key_properties |-> <<"_CustomObjectKey">>,
     schema |-> [type |-> "object",
                 inclusion |-> "available",
                 selected |-> FALSE,
                 properties |-> [n \in FixedFields |->
                     IF n = "_CustomObjectKey" THEN [type |-> <<"string">>]
                                               ELSE [type |-> <<"integer">>]]],
     replication_key |-> "ModifiedDate"]

\* data_extensions.py 63-94: the loop over the listing, from item i on.
RECURSIVE get_extensions_from(_, _, _)
get_extensions_from(listing, i, acc) ==
    IF i > Len(listing) THEN acc
    ELSE get_extensions_from(listing, i + 1,
             (listing[i].CustomerKey :> extension_entry(listing[i])) @@ acc)

get_extensions(listing) == get_extensions_from(listing, 1, EmptyDict)

\* data_extensions.py 17-18 with path [extension_id, 'key_properties'].
\* update_in takes {} for a missing entry and None for a missing list, and
\* merge(None, [new_item]) raises TypeError.
merge_in_raises(collection, extension_id) ==
    \/ extension_id \notin DOMAIN collection
    \/ "key_properties" \notin DOMAIN collection[extension_id]

merge_in(collection, extension_id, new_item) ==
    [collection EXCEPT ![extension_id].key_properties = Append(@, new_item)]

\* set_in that starts the field mapping anew instead of keeping what the
\* entry already has.
set_in_fresh(collection, extension_id, field_name, v) ==
    LET entry == IF extension_id \in DOMAIN collection
                 THEN collection[extension_id] ELSE EmptyDict
        schema == IF "schema" \in DOMAIN entry THEN entry.schema ELSE EmptyDict
    IN (extension_id :>
           (("schema" :> (("properties" :> (field_name :> v)) @@ schema))
            @@ entry))
       @@ collection

\* set_in(to_return, [extension_id, 'schema', 'properties', field_name], v):
\* missing levels of the path are created.
set_in(collection, extension_id, field_name, v) ==
    LET entry == IF extension_id \in DOMAIN collection
                 THEN collection[extension_id] ELSE EmptyDict
        schema == IF "schema" \in DOMAIN entry THEN entry.schema ELSE EmptyDict
        props == IF "properties" \in DOMAIN schema
                 THEN schema.properties ELSE EmptyDict
    IN (extension_id :>
           (("schema" :> (("properties" :> ((field_name :> v) @@ props))
                          @@ schema))
            @@ entry))
       @@ collection

\* data_extensions.py 115-121.
field_schema(field) ==
    [type |-> <<"null", convert_extension_datatype(field.FieldType)>>]

\* data_extensions.py 105-126: the body of the loop for one field that
\* does not raise.
get_fields_field(collection, field) ==
    set_in(IF field.IsPrimaryKey
           THEN merge_in(collection, field.CustomerKey, field.Name)
           ELSE collection,
           field.CustomerKey, field.Name, field_schema(field))

\* data_extensions.py 109-113: the body of the loop raises for this field.
get_fields_raises(collection, field) ==
    field.IsPrimaryKey /\ merge_in_raises(collection, field.CustomerKey)

sync_vars == <<config, catalog, today, rows, saved, state, pc,
               replication_key, start, end, pending, result, log, prevLog,
               emittedAll, firstStart, runStart, saved0, run, queue>>

\* data_extensions.py 132 and 56-94.
generate_catalog_extensions ==
    /\ dpc = "extensions"
    /\ to_return' = get_extensions(extensions)
    /\ fpos' = 0
    /\ dpc' = "fields"
    /\ UNCHANGED <<sync_vars, extensions, fields, raw, record>>

\* data_extensions.py 104-126: one turn of the loop of _get_fields.
get_fields_step ==
    /\ dpc = "fields"
    /\ fpos < Len(fields)
    /\ IF get_fields_raises(to_return, fields[fpos + 1])
       THEN /\ dpc' = "raised"
            /\ UNCHANGED <<to_return, fpos>>
       ELSE /\ to_return' = get_fields_field(to_return, fields[fpos + 1])
            /\ fpos' = fpos + 1
            /\ dpc' = dpc
    /\ UNCHANGED <<sync_vars, extensions, fields, raw, record>>

\* data_extensions.py 128 and 136: the entries are returned.
generate_catalog_return ==
    /\ dpc = "fields"
    /\ fpos = Len(fields)
    /\ dpc' = "done"
    /\ UNCHANGED <<sync_vars, extensions, fields, to_return, fpos, raw, record>>

InitDiscovery ==
    /\ SyncIdle
    /\ catalog = [stream |-> "data_extension.A", selected |-> FALSE,
                  fields |-> FixedFields]
    /\ extensions \in ExtensionListings
    /\ fields \in FieldListings
    /\ to_return = EmptyDict
    /\ dpc = "extensions"
    /\ fpos = 0
    /\ raw = <<>>
    /\ record = <<>>

NextDiscovery ==
    \/ generate_catalog_extensions
    \/ get_fields_step
    \/ generate_catalog_return

SpecDiscovery == InitDiscovery /\ [][NextDiscovery]_vars

\* _get_fields over a whole listing that does not raise, from item i on.
RECURSIVE get_fields_from(_, _, _)
get_fields_from(collection, listing, i) ==
    IF i > Len(listing) THEN collection
    ELSE get_fields_from(get_fields_field(collection, listing[i]), listing,
                         i + 1)

ListingOrders(n) ==
    {p \in [1..n -> 1..n] : \A i, j \in 1..n : p[i] = p[j] => i = j}

Permuted(listing, p) == [i \in DOMAIN listing |-> listing[p[i]]]

\* What discovery returns when the remote lists the fields in order p.
DiscoveredInOrder(p) ==
    get_fields_from(get_extensions(extensions), Permuted(fields, p), 1)

\* No extension has two fields of one name.
DistinctFieldNames ==
    \A i, j \in DOMAIN fields :
        (fields[i].CustomerKey = fields[j].CustomerKey
         /\ fields[i].Name = fields[j].Name) => i = j

Names(list) == {list[i] : i \in DOMAIN list}

\* The entries that generate_catalog returns, by customer key.
Discovered == to_return

\* ------------------------------------------------------------ two streams
\* The entry that discovery makes for an extension, as sync reads it.
catalog_entry(customer_key, name, selected, names) ==
    [tap_stream_id |-> data_extension(customer_key),
     stream |-> extension_entry([CustomerKey |-> customer_key,
                                 Name |-> name]).stream,
     selected |-> selected,
     fields |-> names]

\* The sync of the entry has ended; an object for the next entry is built
\* from the state that was saved (dao.py 16-20) and its sync is called.
next_stream ==
    /\ pc = "done"
    /\ queue # <<>>
    /\ catalog' = Head(queue).catalog
    /\ rows' = Head(queue).rows
    /\ queue' = Tail(queue)
    /\ state' = saved
    /\ pc' = "sync"
    /\ replication_key' = NoKey
    /\ start' = NoValue
    /\ end' = NoValue
    /\ pending' = {}
    /\ result' = {}
    /\ prevLog' = log
    /\ log' = <<>>
    /\ runStart' = NoValue
    /\ UNCHANGED <<config, today, saved, emittedAll, firstStart, saved0, run,
                   aside>>

\* Two extensions with different customer keys; the second may have the
\* display name of the first.  No bookmark is saved yet.
InitPair ==
    /\ AsideIdle
    /\ config \in [default_start_date : {0},
                   replication_keys : {DefaultReplicationKeys},
                   unit : Units]
    /\ today \in 0..(MaxTick + 1)
    /\ rows \in RowSets
    /\ \E selected \in BOOLEAN,
          names \in {FixedFields, FixedFields \cup {"ModifiedDate"}} :
          catalog = catalog_entry("k1", "A", selected, names)
    /\ \E name \in ExtensionNames, later \in {{}, {0, 1}} :
          queue = << [catalog |-> catalog_entry("k2", name, TRUE,
                                      FixedFields \cup {"ModifiedDate"}),
                      rows |-> later] >>
    /\ saved = [t \in Tables |-> NoValue]
    /\ state = saved
    /\ pc = "sync"
    /\ replication_key = NoKey
    /\ start = NoValue
    /\ end = NoValue
    /\ pending = {}
    /\ result = {}
    /\ log = <<>>
    /\ prevLog = <<>>
    /\ emittedAll = {}
    /\ firstStart = NoValue
    /\ runStart = NoValue
    /\ saved0 = saved
    /\ run = 1

NextPair ==
    \/ NextRun
    \/ next_stream

SpecPair == InitPair /\ [][NextPair]_vars

\* ------------------------------------------------- reading the run logs
Indices(l, ev) == {i \in DOMAIN l : l[i].ev = ev}

Records(l) == {l[i].a : i \in Indices(l, "record")}

Windows(l) == SelectSeq(l, LAMBDA e : e.ev = "replicate")

\* The number of the window that event i of l belongs to.
WindowAt(l, i) == Cardinality({j \in 1..i : l[j].ev = "replicate"})

\* The rows written downstream in window w of l.
RecordsOfWindow(l, w) ==
    {l[i].a : i \in {j \in Indices(l, "record") : WindowAt(l, j) = w}}

\* The key sync_data resolves for this entry and configuration.
EntryKey == resolve_replication_key(config.replication_keys, sync_data_keys)

Incremental == catalog.selected /\ EntryKey # NoKey

FullRefresh == catalog.selected /\ EntryKey = NoKey

\* Rows written downstream by this run and by the run before it.
ReEmitted == Records(prevLog) \cap Records(log)

\* ---------------------------------------------------------------- claims

\* C1: in incremental mode the durable bookmark is written only when every
\* row the current window's request returned has been written downstream:
\* no step changes the saved state while a row of the window is pending.
C1_PersistAfterWindowEmitted ==
    [][ saved' # saved =>
          /\ pending' = {}
          /\ result' \subseteq RecordsOfWindow(log', Len(Windows(log'))) ]_vars

\* C1 witness: a window that returned two rows has been saved.
C1_Witness ==
    /\ pc = "replicated"
    /\ replication_key # NoKey
    /\ Cardinality(result) = 2
    /\ saved # saved0

\* C2: after a termination anywhere and a re-run from the saved state, the
\* saved bookmark is never beyond a row (at or after the original start)
\* that was not written downstream, and when the sync has finished every
\* row between the original start and today has been written at least once.
C2_NoRowLost ==
    (Incremental /\ firstStart # NoValue) =>
        /\ \A v \in rows :
              (firstStart <= v /\ v < saved[catalog.stream]) => v \in emittedAll
        /\ pc = "done" =>
              \A v \in rows : (firstStart <= v /\ v < today) => v \in emittedAll

\* C3, as claimed: the rows written by both of two consecutive runs lie in
\* one window, that is, within less than one unit of each other.
C3_ReEmittedInOneWindow ==
    Incremental =>
        \A u \in ReEmitted : \A v \in ReEmitted : v - u < config.unit

\* C3, amended: the rows written by both of two consecutive runs were all
\* returned by the last two row requests of the earlier run, the one of the
\* last window it committed and the one of the window it ended in.
C3_ReEmittedInLastTwoWindows ==
    Incremental =>
        LET n == Len(Windows(prevLog))
        IN  ReEmitted \subseteq
                RecordsOfWindow(prevLog, n) \cup RecordsOfWindow(prevLog, n - 1)

\* C3 witness: the second run wrote again rows of two windows of the first
\* run, which had gone through three.
C3_Witness ==
    /\ Incremental
    /\ Len(Windows(prevLog)) = 3
    /\ RecordsOfWindow(prevLog, 2) \cap ReEmitted # {}
    /\ RecordsOfWindow(prevLog, 3) \cap ReEmitted # {}

\* C4: the saved bookmark of every stream never decreases, whatever the
\* windows, the order of the rows within a window and the restarts.
C4_SavedBookmarkMonotone ==
    [][ \A t \in Tables : saved[t] <= saved'[t] ]_vars

\* C4 witness: in a re-run, a window whose rows came in decreasing order of
\* replication key was committed after the bookmark had already advanced.
C4_Witness ==
    /\ run = 2
    /\ pc = "replicated"
    /\ saved[catalog.stream] > firstStart
    /\ \E i \in Indices(log, "record") :
          /\ i + 1 \in Indices(log, "record")
          /\ log[i].a > log[i + 1].a

\* C5: in incremental mode the windows of one sync are, in order,
\* [s + i*unit, s + (i+1)*unit) for i = 0, 1, ... with s the resolved start,
\* each with its start before today; a completed sync went through all of
\* them; no request is sent for a window that starts at today or later.
C5_WindowsAreConsecutive ==
    replication_key # NoKey =>
        LET w == Windows(log)
        IN  /\ \A i \in 1..Len(w) :
                  /\ w[i].a = runStart + (i - 1) * config.unit
                  /\ w[i].b = runStart + i * config.unit
                  /\ w[i].a < today
            /\ \A i \in Indices(log, "row_request") : log[i].a < today
            /\ pc = "done" =>
                  Len(w) = Cardinality({i \in 0..today :
                                          runStart + i * config.unit < today})

\* C5 witness: a completed incremental sync of three windows.
C5_Witness ==
    /\ pc = "done"
    /\ replication_key # NoKey
    /\ Len(Windows(log)) = 3

\* C6: in incremental mode every bookmark that is saved equals the start of
\* the window just replicated, not the largest replication-key value seen,
\* and after the loop the saved bookmark is the start of the last window.
C6_SavedBookmarkIsWindowStart ==
    replication_key # NoKey =>
        /\ \A i \in Indices(log, "save") : log[i].a = log[i].b
        /\ \A i \in Indices(log, "save") :
              log[i].a = Windows(log)[WindowAt(log, i)].a
        /\ (pc = "done" /\ Len(Windows(log)) > 0) =>
              saved[catalog.stream] = Windows(log)[Len(Windows(log))].a

\* C6 witness: the sync is over and its last window returned a row with a
\* replication-key value after the window's start.
C6_Witness ==
    /\ pc = "done"
    /\ replication_key # NoKey
    /\ Len(Windows(log)) > 1
    /\ \E v \in RecordsOfWindow(log, Len(Windows(log))) :
          v > saved[catalog.stream]

\* C7: without a replication key a sync sends exactly one row request, with
\* no date filter, whatever start and today are; nothing is saved and the
\* ReplicationState, in memory and durable, stays as it was before.
C7_FullRefreshOnePass ==
    FullRefresh =>
        /\ Indices(log, "save") = {}
        /\ saved = saved0
        /\ state = saved0
        /\ Cardinality(Indices(log, "row_request")) <= 1
        /\ \A i \in Indices(log, "row_request") :
              log[i].a = NoValue /\ log[i].b = NoValue
        /\ pc = "done" => Cardinality(Indices(log, "row_request")) = 1
        /\ pc = "done" => Records(log) = rows

\* C7 witness: a full refresh that began at or after today is over, with a
\* bookmark of an earlier sync in the state.
C7_Witness ==
    /\ FullRefresh
    /\ pc = "done"
    /\ start >= today
    /\ rows # {}
    /\ saved0[catalog.stream] # NoValue

\* C8: in every sync of a selected stream the schema is written exactly once
\* and before every record and every remote request of that sync.
C8_SchemaFirst ==
    /\ Cardinality(Indices(log, "schema")) <= 1
    /\ (catalog.selected /\ pc # "sync") => Indices(log, "schema") = {1}
    /\ \A i \in DOMAIN log :
          log[i].ev \in {"record", "row_request", "parent_request"} =>
              \E j \in 1..(i - 1) : log[j].ev = "schema"

\* C8 witness: records have been written after the schema.
C8_Witness ==
    /\ Cardinality(Indices(log, "record")) = 2
    /\ log[1].ev = "schema"

\* C9: for an entry that is not selected sync does nothing: no schema, no
\* record, no remote call, no save, the ReplicationState unchanged, and it
\* returns.
C9_UnselectedIsNoOp ==
    ~catalog.selected =>
        /\ log = <<>>
        /\ emittedAll = {}
        /\ saved = saved0
        /\ state = saved0
        /\ pc \in {"sync", "done"}

\* C9 witness: sync has returned for an entry that is not selected, with a
\* bookmark of an earlier sync in the state.
C9_Witness ==
    /\ ~catalog.selected
    /\ pc = "done"
    /\ saved0[catalog.stream] # NoValue

\* The first candidate, in the configured order, that is a field of the entry.
FirstPresent(candidates, keys) ==
    LET present == {i \in DOMAIN candidates : candidates[i] \in keys}
    IN  IF present = {}
        THEN NoKey
        ELSE candidates[CHOOSE i \in present : \A j \in present : i <= j]

\* C10: the replication key sync_data uses is the first configured candidate
\* that is a field of the entry, and there is none when no candidate is.
C10_FirstCandidateChosen ==
    pc \in {"loop", "rows", "replicated", "done"} /\ catalog.selected =>
        replication_key = FirstPresent(config.replication_keys, sync_data_keys)

\* C11: the record written for a row holds only properties that are fields
\* of the catalog entry, each with the value the row gives it; a property
\* of the row that is not a field of the entry is dropped.
C11_RecordIsProjection ==
    dpc = "written" =>
        /\ DOMAIN record \subseteq get_catalog_keys
        /\ \A n \in DOMAIN raw \cap get_catalog_keys : record[n] = raw[n]

\* C12: every name in the key-properties of a discovered entry, and its
\* replication key, is a key of the entry's field schema mapping.
C12_KeysAreInSchema ==
    dpc = "done" =>
        \A k \in DOMAIN Discovered :
            LET entry == Discovered[k]
                props == DOMAIN entry.schema.properties
            IN /\ "key_properties" \in DOMAIN entry =>
                      \A i \in DOMAIN entry.key_properties :
                          entry.key_properties[i] \in props
               /\ "replication_key" \in DOMAIN entry =>
                      entry.replication_key \in props

\* C13 as stated: whatever the order in which the fields are listed, the
\* field schema mapping and the key-properties list of every entry are the
\* same.
C13_MergeOrderIndependent ==
    (dpc = "done" /\ DistinctFieldNames) =>
        \A p \in ListingOrders(Len(fields)) :
            LET other == DiscoveredInOrder(p)
            IN /\ DOMAIN other = DOMAIN Discovered
               /\ \A k \in DOMAIN Discovered :
                     /\ other[k].schema.properties
                            = Discovered[k].schema.properties
                     /\ "key_properties" \in DOMAIN Discovered[k] =>
                            other[k].key_properties
                                = Discovered[k].key_properties

\* C13, amended: whatever the order in which the fields are listed, the
\* field schema mapping of every entry is the same and its key-properties
\* list holds the same names; the order of the names follows the listing.
C13_MergeSameMappingSameKeys ==
    (dpc = "done" /\ DistinctFieldNames) =>
        \A p \in ListingOrders(Len(fields)) :
            LET other == DiscoveredInOrder(p)
            IN /\ DOMAIN other = DOMAIN Discovered
               /\ \A k \in DOMAIN Discovered :
                     /\ other[k].schema.properties
                            = Discovered[k].schema.properties
                     /\ "key_properties" \in DOMAIN Discovered[k] =>
                            /\ Names(other[k].key_properties)
                                   = Names(Discovered[k].key_properties)
                            /\ Len(other[k].key_properties)
                                   = Len(Discovered[k].key_properties)

\* Discovery is over for an extension with two fields of different names,
\* both of them primary keys.
C13_Witness ==
    /\ dpc = "done"
    /\ DistinctFieldNames
    /\ Len(fields) = 2
    /\ fields[1].CustomerKey = fields[2].CustomerKey
    /\ fields[1].IsPrimaryKey
    /\ fields[2].IsPrimaryKey
    /\ fields[1].Name \in DOMAIN Discovered[fields[1].CustomerKey].schema.properties
    /\ fields[2].Name \in DOMAIN Discovered[fields[1].CustomerKey].schema.properties

\* C14: the type in the schema of every discovered field is boolean for
\* the declared type "Boolean", number for "Decimal" and "Number", and
\* string for every other declared type.
C14_TypeMapping ==
    dpc = "done" =>
        \A i \in DOMAIN fields :
            LET field == fields[i]
                abstract == CASE field.FieldType = "Boolean" -> "boolean"
                              [] field.FieldType \in {"Decimal", "Number"} -> "number"
                              [] OTHER -> "string"
                props == Discovered[field.CustomerKey].schema.properties
            IN props[field.Name].type = <<"null", abstract>>

\* C18: _get_fields never raises, whatever the field listing: a field of a
\* customer key without an entry is merged like any other.
C18_MergeNeverRaises == dpc # "raised"

\* C19: discovery returns one entry for every customer key of the extension
\* listing and of the field listing; every entry has the stream identifier
\* of its customer key, _CustomObjectKey in its key-properties and in its
\* field schema, and CategoryID in its field schema.
C19_EveryEntryComplete ==
    dpc = "done" =>
        /\ DOMAIN Discovered
               = {extensions[i].CustomerKey : i \in DOMAIN extensions}
                 \cup {fields[i].CustomerKey : i \in DOMAIN fields}
        /\ \A k \in DOMAIN Discovered :
               LET entry == Discovered[k]
               IN /\ "tap_stream_id" \in DOMAIN entry
                  /\ entry.tap_stream_id = data_extension(k)
                  /\ "key_properties" \in DOMAIN entry
                  /\ "_CustomObjectKey" \in Names(entry.key_properties)
                  /\ FixedFields \subseteq DOMAIN entry.schema.properties

\* C15: in incremental mode the date filter of every row-listing request
\* covers the window of its _replicate call: it begins at start and ends at
\* end = start + unit, unit being the configured window size.
C15_FilterCoversWindow ==
    \A i \in Indices(log, "row_request") :
        log[i].a # NoValue =>
            /\ log[i].a = log[i - 1].a
            /\ log[i].b = log[i - 1].b
            /\ log[i].b = log[i].a + config.unit

\* C16: an incremental sync that runs undisturbed ends: sync_data leaves
\* its loop after finitely many windows.
C16_SyncDataTerminates == Incremental => <>(pc = "done")

\* An incremental sync has ended after more than one window.
C16_Witness ==
    /\ Incremental
    /\ pc = "done"
    /\ Len(Windows(log)) >= 2

Saves(l) == Indices(l, "save")

Last(S) == CHOOSE i \in S : \A j \in S : j <= i

\* C17: when a remote call of an incremental sync fails, the failure is the
\* last thing the run does (no retry, no further request); no bookmark is
\* saved for the window that failed; the saved bookmark is the start of the
\* last window that was completed, or the one the run found when no window
\* was completed; and the next run starts from it.
C17_FailureKeepsCommitted ==
    /\ \A i \in Indices(log, "raise") : i = Len(log) /\ pc = "failed"
    /\ (pc = "failed" /\ Incremental) =>
          /\ \A s \in Saves(log) : \E r \in Indices(log, "replicate") : s < r
          /\ Saves(log) # {} => saved[catalog.stream] = log[Last(Saves(log))].b
          /\ (Saves(log) = {} /\ run = 1) => saved = saved0
    /\ (Incremental /\ Indices(prevLog, "raise") # {} /\ Saves(prevLog) # {}
        /\ runStart # NoValue) =>
          runStart = prevLog[Last(Saves(prevLog))].b

\* A row listing failed after a completed window and after a record of the
\* failed window was written, and the next run has resolved its start.
C17_Witness ==
    /\ Incremental
    /\ Indices(prevLog, "raise") # {}
    /\ Saves(prevLog) # {}
    /\ prevLog[Len(prevLog) - 1].ev = "record"
    /\ runStart # NoValue

\* C20: the sync of an extension that follows the sync of another one
\* resolves its start from the bookmark it had before that sync: the sync
\* of the other extension has not changed it.
C20_BookmarksDoNotInterfere ==
    (queue = <<>> /\ Incremental /\ runStart # NoValue) =>
        runStart = (IF saved0[catalog.stream] = NoValue
                    THEN config.default_start_date
                    ELSE saved0[catalog.stream])

====
